---- MODULE Spec2Model ----
(***************************************************************************)
(* A model of carta's mapper (src/mapper.go): the row assembler            *)
(* (MapResponse / MapRow / prepareProtoValues / findUniqueResp), the plan  *)
(* builder (generateSqlMap) and the entry point Map with its plan cache.   *)
(***************************************************************************)
EXTENDS Integers, Sequences, FiniteSets, TLC

\* Bounds of the model.
MaxRows == 2      \* rows the row source yields to one MapResponse call
MaxCols == 3      \* columns of the vector the plan builder is given
MaxCalls == 2     \* MapResponse calls made on one Mapper
MaxCallRows == 1  \* rows of each of those calls
MaxEnumCalls == 3 \* calls of RegisterEnums

(***************************************************************************)
(* Values of a row.  A raw column value is NULL, an ordinary value, or a   *)
(* value that the leaf's setProto rejects.                                 *)
(***************************************************************************)
Null == "NULL"
Bad == "bad"
Unset == "unset"          \* zero value of a leaf that was never set
NoError == <<>>           \* m.Error == nil

(***************************************************************************)
(* The plan the assembler runs on: Mapper.SqlMap, a tree of SqlMap nodes.  *)
(*   root {id}  --has-one-->  Addr {city}                                  *)
(*              --has-many--> Posts {post_id} --has-many--> Tags {tag}     *)
(***************************************************************************)
Nodes == {"root", "Addr", "Posts", "Tags"}
Root == "root"

\* sqlMap.Columns: the column names that belong to the node's leaf fields
Columns == [root  |-> {"id"},
            Addr  |-> {"city"},
            Posts |-> {"post_id"},
            Tags  |-> {"tag"}]

\* sqlMap.Associations (has-one children), in the order the range visits them
Associations == [root |-> <<"Addr">>, Addr |-> <<>>, Posts |-> <<>>, Tags |-> <<>>]

\* sqlMap.Collections (has-many children), in the order the range visits them
Collections == [root |-> <<"Posts">>, Addr |-> <<>>, Posts |-> <<"Tags">>, Tags |-> <<>>]

\* m.columns: column name -> index in the row vector
columns == [id |-> 1, city |-> 2, post_id |-> 3, tag |-> 4]

ColumnNames == DOMAIN columns

\* the raw values each column of the row source may carry
ColumnValues == [id      |-> {Null, "v1", "v2", Bad},
                 city    |-> {Null, "v1", "v2", Bad},
                 post_id |-> {Null, "v1", "v2"},
                 tag     |-> {"v1"}]

AllValues == UNION {ColumnValues[c] : c \in ColumnNames}

Rows == {r \in [1..Cardinality(ColumnNames) -> AllValues] :
            \A c \in ColumnNames : r[columns[c]] \in ColumnValues[c]}

AssociationNodes == UNION {{Associations[p][k] : k \in 1..Len(Associations[p])} : p \in Nodes}
CollectionNodes == UNION {{Collections[p][k] : k \in 1..Len(Collections[p])} : p \in Nodes}

IsCollection(n) == n \in CollectionNodes
IsAssociation(n) == n \in AssociationNodes

\* the nodes nested in node p, and the parent of each nested node
ChildNodesOf == [p \in Nodes |->
                    {Associations[p][k] : k \in 1..Len(Associations[p])}
                        \cup {Collections[p][k] : k \in 1..Len(Collections[p])}]

ParentOf == [n \in AssociationNodes \cup CollectionNodes |->
                CHOOSE p \in Nodes : n \in ChildNodesOf[p]]

Parent(n) == ParentOf[n]

\* all orders in which a range over a Go map may yield the elements of S
Perms(S) == {s \in [1..Cardinality(S) -> S] : \A i, j \in 1..Cardinality(S) : s[i] = s[j] => i = j}

\* one iteration order of m.columns per node, restricted to the node's columns
IterOrders == {f \in [Nodes -> UNION {Perms(Columns[n]) : n \in Nodes}] :
                  \A n \in Nodes : f[n] \in Perms(Columns[n])}

VARIABLES
    heap,            \* the records allocated by the current call, by address 1..Len(heap)
    Responses,       \* respMap.Responses: addresses of the top level records
    sqlMapVals,      \* respMap.sqlMapVals, one SqlMapVals per plan node
    Error,           \* m.Error
    Logs,            \* m.Logs (the keys of the map)
    PresentColumns,  \* sqlMap.PresentColumns of every plan node
    pc,              \* "running" (inside MapResponse) or "returned"
    ret,             \* what the last MapResponse returned
    dstKind,         \* shape of the caller's destination for the current call
    rowsDone,        \* the rows the call's loop has taken so far
    calls,           \* the MapResponse calls started on the Mapper so far
    prevRows,        \* the rows the call before the current one took
    prevHeap,        \* the records that call allocated
    prevResponses,   \* the top level records of that call
    \* the plan builder
    bDst,            \* the record type generateSqlMap is run for
    bGiven,          \* the column vector as the caller passed it
    bColumns,        \* the caller's column slice, which generateSqlMap writes to
    bObjs,           \* every SqlMap made by the run, by address; 1 is the top level one
    bObjs2,          \* every SqlMap made by a second run on the same slice
    bpc,             \* "start", "built" or "rebuilt"
    \* the calls of Map
    mapperCache,     \* the plan cache: <<columns, dstTyp>> to the stored mapper
    mapPc,           \* per call: "start", "store", "loadRows" or "done"
    dst,             \* per call: the type of the destination
    rowsColumns,     \* per call: the columns of its row source
    mapper,          \* per call: the local variable mapper
    mapRet,          \* per call: the error Map returned
    rowsTaken,       \* per call: whether a row of the source was processed
    \* the enum registry
    EnumVals,        \* the package variable: 0 (nil) or the address of a map
    enumMaps,        \* the maps the callers made, by address
    enumCalls,       \* what each RegisterEnums call was given, in call order
    \* the composite keys
    keyIn,           \* two row fragments: the raw values of a parent and a child column
    keyOut           \* the keys findUniqueResp gave them, <<>> before it ran

asmVars == <<heap, Responses, sqlMapVals, Error, Logs, PresentColumns, pc, ret,
             dstKind, rowsDone, calls, prevRows, prevHeap, prevResponses>>
prevVars == <<prevRows, prevHeap, prevResponses>>
planVars == <<bDst, bGiven, bColumns, bObjs, bObjs2, bpc>>
mapVars == <<mapperCache, mapPc, dst, rowsColumns, mapper, mapRet, rowsTaken>>
enumVars == <<EnumVals, enumMaps, enumCalls>>
keyVars == <<keyIn, keyOut>>
vars == <<asmVars, planVars, mapVars, enumVars, keyVars>>

\* the builder is not part of the run
PlanIdle ==
    /\ bDst = "" /\ bGiven = <<>> /\ bColumns = <<>> /\ bObjs = <<>> /\ bObjs2 = <<>>
    /\ bpc = "idle"

\* RegisterEnums is not part of the run
EnumIdle == EnumVals = 0 /\ enumMaps = <<>> /\ enumCalls = <<>>

\* findUniqueResp is not run on its own
KeyIdle == keyIn = <<>> /\ keyOut = <<>>

\* no call of Map is part of the run
MapIdle ==
    /\ mapperCache = <<>> /\ mapPc = <<>> /\ dst = <<>> /\ rowsColumns = <<>>
    /\ mapper = <<>> /\ mapRet = <<>> /\ rowsTaken = <<>>

(***************************************************************************)
(* Records.  A record of node n has the node's leaves, one field per       *)
(* has-one child (0 is the nil pointer) and one list per has-many child.   *)
(* writes counts successful setProto calls per leaf.                       *)
(***************************************************************************)
NewRecord(n) ==
    [node   |-> n,
     leaves |-> [c \in Columns[n] |-> Unset],
     writes |-> [c \in Columns[n] |-> 0],
     one    |-> [a \in {Associations[n][k] : k \in 1..Len(Associations[n])} |-> 0],
     many   |-> [c \in {Collections[n][k] : k \in 1..Len(Collections[n])} |-> <<>>]]

\* newSubMapVals: fresh runtime state for every node of the plan
newSubMapVals ==
    [n \in Nodes |-> [UniqueIds |-> <<>>, ProtoValues |-> <<>>, IsNill |-> FALSE]]

\* the message MapRow logs when a has-one field is set a second time
HasOneMessage(name) == <<name, "is defined as a nested field, yet it appears more than once">>

\* the error MapRow stores when setProto fails
SetProtoError(n, column) == <<"error setting", n, column>>

\* setProto(respField, value) fails: the raw value cannot be coerced
setProtoFails(value) == value = Bad

\* the characters of the raw values that occur as text
CharsOf == [v1 |-> <<"v", "1">>, v2 |-> <<"v", "2">>, bad |-> <<"b", "a", "d">>]
              @@ ("" :> <<>>) @@ ("a" :> <<"a">>) @@ (";" :> <<";">>)
              @@ ("a;" :> <<"a", ";">>) @@ (";a" :> <<";", "a">>)
              @@ ("N" :> <<"N">>) @@ ("\\N" :> <<"\\", "N">>)

RECURSIVE Escaped(_)
\* a text with its delimiters and escape characters escaped
Escaped(chars) ==
    IF chars = <<>> THEN <<>>
    ELSE (IF Head(chars) \in {";", "\\"} THEN <<"\\", Head(chars)>> ELSE <<Head(chars)>>)
            \o Escaped(Tail(chars))

RECURSIVE getUniqueId(_)
\* getUniqueId(values...): the values as one string, each value escaped and
\* closed by the delimiter, a nil value written as the null marker
getUniqueId(values) ==
    IF values = <<>> THEN <<>>
    ELSE (IF Head(values) = Null THEN <<"\\", "N", ";">>
          ELSE Escaped(CharsOf[Head(values)]) \o <<";">>)
            \o getUniqueId(Tail(values))

(***************************************************************************)
(* The state MapRow works on, threaded through the recursion.              *)
(***************************************************************************)
PresentNil(st, n) == st.PresentColumns[n].isNil

\* prepareProtoValues that never finds the values all nil
prepareProtoValuesNeverNill(st, rowValues, n, iter) ==
    LET present == IF PresentNil(st, n) THEN iter[n] ELSE st.PresentColumns[n].list
        values  == [i \in 1..Len(present) |-> rowValues[columns[present[i]]]]
    IN  [st EXCEPT !.PresentColumns[n] = [isNil |-> FALSE, list |-> present],
                   !.vals[n].ProtoValues = values,
                   !.vals[n].IsNill = FALSE]

prepareProtoValues(st, rowValues, n, iter) ==
    LET present == IF PresentNil(st, n) THEN iter[n] ELSE st.PresentColumns[n].list
        values  == [i \in 1..Len(present) |-> rowValues[columns[present[i]]]]
    IN  [st EXCEPT !.PresentColumns[n] = [isNil |-> FALSE, list |-> present],
                   !.vals[n].ProtoValues = values,
                   !.vals[n].IsNill = \A i \in 1..Len(values) : values[i] = Null]

\* findUniqueResp that leaves the parent's id out of the unique id
findUniqueRespNoParent(st, n, parentId) ==
    LET uniqueId == getUniqueId(st.vals[n].ProtoValues)
        found    == uniqueId \in DOMAIN st.vals[n].UniqueIds
    IN  [protoMsg |-> IF found THEN st.vals[n].UniqueIds[uniqueId] ELSE 0,
         uniqueId |-> uniqueId,
         isUnique |-> ~found]

findUniqueResp(st, n, parentId) ==
    LET uniqueId == parentId \o getUniqueId(st.vals[n].ProtoValues)
        found    == uniqueId \in DOMAIN st.vals[n].UniqueIds
    IN  [protoMsg |-> IF found THEN st.vals[n].UniqueIds[uniqueId] ELSE 0,
         uniqueId |-> uniqueId,
         isUnique |-> ~found]

\* the leaves are set on every visit, seen or not
IsNewUniqueIdAlways(st, n, uniqueId) == TRUE

\* _, ok := sqlMapVals.UniqueIds[uniqueId]; ok != true
IsNewUniqueId(st, n, uniqueId) == uniqueId \notin DOMAIN st.vals[n].UniqueIds

\* a has-one field that is set only while it is nil
SetAssociationIfNil(h, protoMsg, association, newAssociationElem) ==
    IF h[protoMsg].one[association] # 0 THEN h
    ELSE [h EXCEPT ![protoMsg].one[association] = newAssociationElem]

\* respValue.Field(association.ParentFieldId).Set(newAssociationElem)
SetAssociation(h, protoMsg, association, newAssociationElem) ==
    [h EXCEPT ![protoMsg].one[association] = newAssociationElem]

\* a new element that is put in front of the list
AppendCollectionFront(h, protoMsg, collection, newCollectionElem) ==
    [h EXCEPT ![protoMsg].many[collection] = <<newCollectionElem>> \o @]

\* respValueField.Set(reflect.Append(respValueField, newCollectionElem))
AppendCollection(h, protoMsg, collection, newCollectionElem) ==
    [h EXCEPT ![protoMsg].many[collection] = Append(@, newCollectionElem)]

\* a top level element that is kept only when it is the first
AppendResponseOnce(responses, topLvlElem) ==
    IF responses = <<>> THEN <<topLvlElem>> ELSE responses

\* respMap.Responses = append(respMap.Responses, topLvlElem)
AppendResponse(responses, topLvlElem) == Append(responses, topLvlElem)

\* a loop that goes on to the next row whatever m.Error holds
ReturnsErrorNever(st) == FALSE

\* if m.Error != nil { return m.Error }, after MapRow in MapResponse's loop
ReturnsError(st) == st.Error # NoError

Put(f, k, v) == [x \in DOMAIN f \cup {k} |-> IF x = k THEN v ELSE f[x]]

\* the loop over sqlMap.PresentColumns that sets the leaves of a new record
RECURSIVE SetLeaves(_, _, _, _)
SetLeaves(st, n, protoMsg, i) ==
    IF i > Len(st.PresentColumns[n].list) THEN st
    ELSE LET column == st.PresentColumns[n].list[i]
             value  == st.vals[n].ProtoValues[i]
         IN  IF setProtoFails(value)
             THEN [st EXCEPT !.Error = SetProtoError(n, column)]
             ELSE SetLeaves([st EXCEPT !.heap[protoMsg].leaves[column] = value,
                                       !.heap[protoMsg].writes[column] = @ + 1],
                            n, protoMsg, i + 1)

RECURSIVE MapRow(_, _, _, _, _, _)
RECURSIVE MapAssociations(_, _, _, _, _, _, _)
RECURSIVE MapCollections(_, _, _, _, _, _, _)

\* the loop over sqlMap.Associations of MapRow, from its k-th element on
MapAssociations(st, rowValues, n, protoMsg, uniqueId, iter, k) ==
    IF k > Len(Associations[n]) THEN st
    ELSE LET association == Associations[n][k]
             s1 == prepareProtoValues(st, rowValues, association, iter)
         IN  IF s1.vals[association].IsNill
             THEN MapAssociations(s1, rowValues, n, protoMsg, uniqueId, iter, k + 1)
             ELSE LET f  == findUniqueResp(s1, association, uniqueId)
                      newAssociationElem == Len(s1.heap) + 1
                      s2 == IF f.isUnique
                            THEN [s1 EXCEPT
                                    !.Logs = IF s1.heap[protoMsg].one[association] # 0
                                             THEN @ \cup {HasOneMessage(association)}
                                             ELSE @,
                                    !.heap = Append(SetAssociation(s1.heap, protoMsg, association,
                                                                   newAssociationElem),
                                                    NewRecord(association))]
                            ELSE s1
                      associationElem == IF f.isUnique THEN newAssociationElem ELSE f.protoMsg
                      s3 == MapRow(s2, rowValues, association, associationElem, f.uniqueId, iter)
                  IN  MapAssociations(s3, rowValues, n, protoMsg, uniqueId, iter, k + 1)

\* the loop over sqlMap.Collections of MapRow, from its k-th element on
MapCollections(st, rowValues, n, protoMsg, uniqueId, iter, k) ==
    IF k > Len(Collections[n]) THEN st
    ELSE LET collection == Collections[n][k]
             s1 == prepareProtoValues(st, rowValues, collection, iter)
         IN  IF s1.vals[collection].IsNill
             THEN MapCollections(s1, rowValues, n, protoMsg, uniqueId, iter, k + 1)
             ELSE LET f  == findUniqueResp(s1, collection, uniqueId)
                      newCollectionElem == Len(s1.heap) + 1
                      s2 == IF f.isUnique
                            THEN [s1 EXCEPT
                                    !.heap = Append(AppendCollection(s1.heap, protoMsg, collection,
                                                                     newCollectionElem),
                                                    NewRecord(collection))]
                            ELSE s1
                      collectionElem == IF f.isUnique THEN newCollectionElem ELSE f.protoMsg
                      s3 == MapRow(s2, rowValues, collection, collectionElem, f.uniqueId, iter)
                  IN  MapCollections(s3, rowValues, n, protoMsg, uniqueId, iter, k + 1)

MapRow(st, rowValues, n, protoMsg, uniqueId, iter) ==
    IF st.Error # NoError THEN st
    ELSE LET isNew == IsNewUniqueId(st, n, uniqueId)
             s1 == IF isNew
                   THEN SetLeaves([st EXCEPT !.vals[n].UniqueIds = Put(@, uniqueId, protoMsg)],
                                  n, protoMsg, 1)
                   ELSE st
         IN  IF isNew /\ s1.Error # NoError THEN s1
             ELSE MapCollections(
                     MapAssociations(s1, rowValues, n, protoMsg, uniqueId, iter, 1),
                     rowValues, n, protoMsg, uniqueId, iter, 1)

\* the body of MapResponse's loop for one row
MapResponseBody(st, rowValues, iter) ==
    LET s1 == prepareProtoValues(st, rowValues, Root, iter)
    IN  IF s1.vals[Root].IsNill THEN s1
        ELSE LET f == findUniqueResp(s1, Root, <<>>)
                 new == Len(s1.heap) + 1
                 s2 == IF f.isUnique
                       THEN [s1 EXCEPT !.heap = Append(@, NewRecord(Root)),
                                       !.Responses = AppendResponse(@, new)]
                       ELSE s1
                 topLvlElem == IF f.isUnique THEN new ELSE f.protoMsg
             IN  MapRow(s2, rowValues, Root, topLvlElem, f.uniqueId, iter)

CurrentState ==
    [heap |-> heap, Responses |-> Responses, vals |-> sqlMapVals, Error |-> Error,
     Logs |-> Logs, PresentColumns |-> PresentColumns]

(***************************************************************************)
(* Actions of the assembler.                                               *)
(***************************************************************************)
\* A Mapper whose plan was just built, and a fresh NewResponseMapping() for it
Init ==
    /\ heap = <<>>
    /\ Responses = <<>>
    /\ sqlMapVals = newSubMapVals
    /\ Error = NoError
    /\ Logs = {}
    /\ PresentColumns = [n \in Nodes |-> [isNil |-> TRUE, list |-> <<>>]]
    /\ pc = "running"
    /\ ret = NoError
    /\ dstKind \in {"slice", "struct"}
    /\ rowsDone = <<>>
    /\ calls = 1
    /\ prevRows = <<>> /\ prevHeap = <<>> /\ prevResponses = <<>>
    /\ PlanIdle
    /\ MapIdle
    /\ EnumIdle
    /\ KeyIdle

\* one iteration of MapResponse's loop over respMap.values, for some row
RowStep ==
    \E rowValues \in Rows, iter \in IterOrders :
       \E st \in {MapResponseBody(CurrentState, rowValues, iter)} :
          LET skipped == st.vals[Root].IsNill
          IN  /\ heap' = st.heap
              /\ Responses' = st.Responses
              /\ sqlMapVals' = st.vals
              /\ Error' = st.Error
              /\ Logs' = st.Logs
              /\ PresentColumns' = st.PresentColumns
              /\ rowsDone' = Append(rowsDone, rowValues)
              /\ IF ~skipped /\ ReturnsError(st)
                 THEN pc' = "returned" /\ ret' = st.Error
                 ELSE pc' = "running" /\ ret' = ret

MapResponseRow ==
    /\ pc = "running"
    /\ Len(rowsDone) < MaxRows
    /\ RowStep
    /\ UNCHANGED <<dstKind, calls, prevVars, planVars, mapVars, enumVars, keyVars>>

\* the loop of MapResponse ends: return nil
MapResponseEnd ==
    /\ pc = "running"
    /\ pc' = "returned"
    /\ ret' = NoError
    /\ UNCHANGED <<heap, Responses, sqlMapVals, Error, Logs, PresentColumns,
                   dstKind, rowsDone, calls, prevVars, planVars, mapVars, enumVars, keyVars>>

Next ==
    \/ MapResponseRow
    \/ MapResponseEnd

Spec == Init /\ [][Next]_vars

(***************************************************************************)
(* Several MapResponse calls, one after the other, on one Mapper: each     *)
(* call has its own NewResponseMapping() and its own destination; Error,   *)
(* Logs and the SqlMap tree are fields of the Mapper.                      *)
(***************************************************************************)
InitCalls ==
    /\ Init
    /\ dstKind = "slice"

\* one iteration of the loop of the current call
CallRow ==
    /\ pc = "running"
    /\ Len(rowsDone) < MaxCallRows
    /\ RowStep
    /\ UNCHANGED <<dstKind, calls, prevVars, planVars, mapVars, enumVars, keyVars>>

\* respMap := m.NewResponseMapping(), rows for it, and m.MapResponse(respMap)
NewCall ==
    /\ pc = "returned"
    /\ calls < MaxCalls
    /\ calls' = calls + 1
    /\ heap' = <<>>
    /\ Responses' = <<>>
    /\ sqlMapVals' = newSubMapVals
    /\ rowsDone' = <<>>
    /\ pc' = "running"
    /\ ret' = NoError
    /\ prevRows' = rowsDone
    /\ prevHeap' = heap
    /\ prevResponses' = Responses
    /\ UNCHANGED <<Error, Logs, PresentColumns, dstKind, planVars, mapVars, enumVars, keyVars>>

NextCalls ==
    \/ CallRow
    \/ MapResponseEnd
    \/ NewCall

SpecCalls == InitCalls /\ [][NextCalls]_vars

(***************************************************************************)
(* The plan builder: generateSqlMap.                                       *)
(*                                                                         *)
(* Types.  A field has a name, the name of its `db` tag ("" without tag)   *)
(* and a type; a type has a reflect kind, a name and, for pointers and     *)
(* slices, the record type it leads to.                                    *)
(***************************************************************************)
Int64T == [Kind |-> "Int64", Name |-> "int64", Elem |-> ""]
StringT == [Kind |-> "String", Name |-> "string", Elem |-> ""]
EnumT == [Kind |-> "Int32", Name |-> "Status", Elem |-> ""]
TimestampT == [Kind |-> "Ptr", Name |-> "*timestamp.Timestamp", Elem |-> "Timestamp"]
MapT == [Kind |-> "Map", Name |-> "map[string]string", Elem |-> ""]
PtrTo(t) == [Kind |-> "Ptr", Name |-> "*" \o t, Elem |-> t]
SliceOf(t) == [Kind |-> "Slice", Name |-> "[]*" \o t, Elem |-> t]

F(name, tag, type) == [Name |-> name, Tag |-> tag, Type |-> type]

\* the record types of the destinations, fields in declaration order
StructFields ==
    [Blog |-> <<F("Id", "", Int64T), F("Title", "", StringT),
                F("Posts", "", SliceOf("Post")), F("Author", "", PtrTo("User"))>>,
     Feed |-> <<F("Posts", "", SliceOf("Post")), F("Id", "", Int64T),
                F("At", "at", TimestampT)>>,
     Post |-> <<F("Id", "post_id", Int64T), F("Body", "", StringT),
                F("Author", "", PtrTo("User"))>>,
     User |-> <<F("Id", "", Int64T), F("Status", "", EnumT)>>,
     Bag  |-> <<F("Items", "", MapT), F("Owner", "", PtrTo("User"))>>]

DstTypes == DOMAIN StructFields

\* the names a column of the row source may carry
ColumnPool == {"id", "Id", "title", "post_id", "status", "at"}

ColumnVectors == UNION {[1..k -> ColumnPool] : k \in 0..MaxCols}

\* strings.ToLower on the names that occur
ToLower(str) ==
    CASE str = "Id" -> "id"
      [] str = "Title" -> "title"
      [] str = "Body" -> "body"
      [] str = "Posts" -> "posts"
      [] str = "Author" -> "author"
      [] str = "Status" -> "status"
      [] str = "At" -> "at"
      [] str = "Items" -> "items"
      [] str = "Owner" -> "owner"
      [] OTHER -> str

\* allowedKinds
allowedKinds == {"Float64", "Float32", "Int32", "Uint32", "Int64", "Uint64", "Bool", "String"}

\* allowedTypes
allowedTypes == {TimestampT}

isEnum(field) == field.Type.Kind = "Int32" /\ field.Type.Name # "int32"

isAlowedType(field) ==
    LET kind == field.Type.Kind
    IN  IF kind \in allowedKinds THEN TRUE
        ELSE IF kind = "Ptr" /\ field.Type \in allowedTypes THEN TRUE
        ELSE IF isEnum(field) THEN TRUE
        ELSE FALSE

\* isSubMap (not in src): a record or a pointer to one is has-one, a slice of
\* records is has-many, anything else is no sub map
isSubMap(field) ==
    LET t == field.Type
    IN  IF t.Kind \in {"Ptr", "Struct"} /\ t.Elem \in DstTypes
        THEN [cardinality |-> "Association", isSubMap |-> TRUE]
        ELSE IF t.Kind = "Slice" /\ t.Elem \in DstTypes
        THEN [cardinality |-> "Collection", isSubMap |-> TRUE]
        ELSE [cardinality |-> "", isSubMap |-> FALSE]

\* getNameFromTag (not in src): the column name the `db` tag gives; a field
\* without tag gets no candidate from the tag, which is modelled as a name
\* that no column carries
NoTagName == "<no tag>"
getNameFromTag(tag) == IF tag = "" THEN NoTagName ELSE tag

possibleFieldNames(field, parentName) ==
    LET nameFromTag == getNameFromTag(field.Tag)
    IN  {field.Name, nameFromTag, ToLower(nameFromTag), ToLower(field.Name)}

\* SqlMap{Name: ..., MapType: ..., Crd: ...}; subMaps keeps the local map
\* of the last generateSqlMap call on the node
NewSqlMap(name, mapType, crd) ==
    [Name |-> name, MapType |-> mapType, Crd |-> crd,
     PresentColumns |-> [isNil |-> TRUE, map |-> <<>>],
     AncestorColumns |-> <<>>,
     SubMaps |-> "nil",
     Logs |-> <<>>,
     subMaps |-> <<>>]

\* a claimed column that stays visible to the fields and nodes that follow
ClaimColumnNot(cols, j) == cols

\* columns[j] = ""
ClaimColumn(cols, j) == [cols EXCEPT ![j] = ""]

RECURSIVE MinOf(_)
MinOf(S) == CHOOSE m \in S : \A x \in S : m <= x

RECURSIVE InOrder(_, _)
\* the elements of a set of field indexes, ascending or descending
InOrder(S, rev) ==
    IF S = {} THEN <<>>
    ELSE LET m == IF rev THEN CHOOSE x \in S : \A y \in S : y <= x ELSE MinOf(S)
         IN  <<m>> \o InOrder(S \ {m}, rev)

RECURSIVE generateSqlMap(_, _, _, _, _)
RECURSIVE FieldLoop(_, _, _, _, _)
RECURSIVE SubMapLoop(_, _, _, _, _, _)

\* the loop over the fields of sqlMap.MapType, from field i on; ls holds the
\* SqlMaps, the column slice and the locals presentColumns, subMaps and
\* containsAllowed
FieldLoop(ls, sqlMap, parent, rev, i) ==
    LET fields == StructFields[ls.objs[sqlMap].MapType]
    IN  IF i > Len(fields) THEN ls
        ELSE LET field == fields[i]
             IN  IF isAlowedType(field)
                 THEN LET names == possibleFieldNames(field, IF parent = 0 THEN "" ELSE ls.objs[parent].Name)
                          js == {j \in 1..Len(ls.columns) : ls.columns[j] \in names}
                      IN  IF js = {}
                          THEN FieldLoop([ls EXCEPT !.containsAllowed = TRUE],
                                         sqlMap, parent, rev, i + 1)
                          ELSE LET j == MinOf(js)
                                   c == ls.columns[j]
                               IN  FieldLoop([ls EXCEPT
                                                !.containsAllowed = TRUE,
                                                !.presentColumns =
                                                    Put(@, c, [field |-> field.Name,
                                                               fieldIndex |-> i,
                                                               columnIndex |-> j]),
                                                !.columns = ClaimColumn(@, j)],
                                              sqlMap, parent, rev, i + 1)
                 ELSE IF isSubMap(field).isSubMap
                 THEN LET new == Len(ls.objs) + 1
                          subMap == NewSqlMap(field.Name, field.Type.Elem,
                                              isSubMap(field).cardinality)
                          r == generateSqlMap(Append(ls.objs, subMap), new, ls.columns,
                                              sqlMap, rev)
                      IN  FieldLoop([ls EXCEPT !.objs = r.objs,
                                               !.columns = r.columns,
                                               !.subMaps = Put(@, i, new)],
                                    sqlMap, parent, rev, i + 1)
                 ELSE FieldLoop(ls, sqlMap, parent, rev, i + 1)

\* the closing loop over the local subMaps, in the order the range yields them
SubMapLoop(r, order, ancestorColumns, sqlMap, rev, k) ==
    IF k > Len(order) THEN r
    ELSE LET subMap == order[k]
             objs1 == [r.objs EXCEPT ![subMap].AncestorColumns = ancestorColumns]
         IN  SubMapLoop(generateSqlMap(objs1, subMap, r.columns, sqlMap, rev),
                        order, ancestorColumns, sqlMap, rev, k + 1)

generateSqlMap(objs, sqlMap, cols, parent, rev) ==
    LET ls == FieldLoop([objs |-> objs, columns |-> cols, presentColumns |-> <<>>,
                         subMaps |-> <<>>, containsAllowed |-> FALSE],
                        sqlMap, parent, rev, 1)
        kept == [ls.objs EXCEPT ![sqlMap].subMaps = ls.subMaps]
    IN  IF ~ls.containsAllowed
        THEN [objs |-> [kept EXCEPT ![sqlMap].Logs = Append(@, "No allowed fields were found"),
                                    ![sqlMap].SubMaps = "empty"],
              columns |-> ls.columns]
        ELSE IF DOMAIN ls.presentColumns = {}
        THEN [objs |-> [kept EXCEPT ![sqlMap].Logs =
                                        Append(@, "no corresponding columns were found")],
              columns |-> ls.columns]
        ELSE LET ancestorColumns ==
                    [c \in DOMAIN ls.presentColumns \cup DOMAIN objs[sqlMap].AncestorColumns |->
                        IF c \in DOMAIN objs[sqlMap].AncestorColumns
                        THEN objs[sqlMap].AncestorColumns[c]
                        ELSE ls.presentColumns[c]]
             IN  SubMapLoop([objs |-> [kept EXCEPT ![sqlMap].PresentColumns =
                                            [isNil |-> FALSE, map |-> ls.presentColumns]],
                             columns |-> ls.columns],
                            InOrder({ls.subMaps[i] : i \in DOMAIN ls.subMaps}, rev),
                            ancestorColumns, sqlMap, rev, 1)

\* a destination type and a column vector, before the plan is built
InitPlan ==
    /\ bDst \in DstTypes
    /\ bGiven \in ColumnVectors
    /\ bColumns = bGiven
    /\ bObjs = <<>>
    /\ bObjs2 = <<>>
    /\ bpc = "start"
    /\ heap = <<>> /\ Responses = <<>> /\ sqlMapVals = newSubMapVals
    /\ Error = NoError /\ Logs = {}
    /\ PresentColumns = [n \in Nodes |-> [isNil |-> TRUE, list |-> <<>>]]
    /\ pc = "idle" /\ ret = NoError /\ dstKind = "slice" /\ rowsDone = <<>>
    /\ calls = 0
    /\ prevRows = <<>> /\ prevHeap = <<>> /\ prevResponses = <<>>
    /\ MapIdle
    /\ EnumIdle
    /\ KeyIdle

\* the plan is generated for the destination type and the columns
BuildPlan ==
    /\ bpc = "start"
    /\ \E rev \in BOOLEAN :
         \E r \in {generateSqlMap(<<NewSqlMap("", bDst, "")>>, 1, bColumns, 0, rev)} :
            /\ bObjs' = r.objs
            /\ bColumns' = r.columns
    /\ bpc' = "built"
    /\ UNCHANGED <<bDst, bGiven, bObjs2, asmVars, mapVars, enumVars, keyVars>>

\* the caller generates a plan for the same type again, passing the slice it
\* passed to the first run
BuildAgain ==
    /\ bpc = "built"
    /\ \E rev \in BOOLEAN :
         \E r \in {generateSqlMap(<<NewSqlMap("", bDst, "")>>, 1, bColumns, 0, rev)} :
            /\ bObjs2' = r.objs
            /\ bColumns' = r.columns
    /\ bpc' = "rebuilt"
    /\ UNCHANGED <<bDst, bGiven, bObjs, asmVars, mapVars, enumVars, keyVars>>

NextPlan == BuildPlan \/ BuildAgain

SpecPlan == InitPlan /\ [][NextPlan]_vars

(***************************************************************************)
(* Map: the entry point, run by concurrent callers over one plan cache.    *)
(***************************************************************************)
Callers == {"a", "b"}

\* reflect.TypeOf(dst): the kind, and the kind of Elem() for a pointer
PtrStruct == [Kind |-> "Ptr", Elem |-> "Struct"]
PtrSlice == [Kind |-> "Ptr", Elem |-> "Slice"]
PtrInt == [Kind |-> "Ptr", Elem |-> "Int64"]
StructVal == [Kind |-> "Struct", Elem |-> ""]
SliceVal == [Kind |-> "Slice", Elem |-> ""]
IntVal == [Kind |-> "Int64", Elem |-> ""]
DstShapes == {PtrStruct, PtrSlice, PtrInt, StructVal, SliceVal, IntVal}

\* the column vectors of the row sources
RowsColumnsPool == {<<"id">>, <<"id", "title">>}

\* what rows.Columns() and rows.ColumnTypes() do
SourceOutcomes == {"ok", "Columns fails", "ColumnTypes fails"}

RowSourceError == <<"RowSourceError">>

\* the error of line 71
InvalidDestinationType ==
    <<"carta: cannot map rows onto dstTyp, destination must be pointer to a slice(*[]) or pointer to struct">>

isStructPtr(t) == t.Kind = "Ptr" /\ t.Elem = "Struct"

isSlicePtr(t) == t.Kind = "Ptr" /\ t.Elem = "Slice"

\* the guard of the error of line 71
DestinationRejected(dstTyp) == isSlicePtr(dstTyp) \/ isStructPtr(dstTyp)

\* newMapper (not in src): the plan for the type; fails when the root is not
\* a record, a reference to one, or a sequence of either
newMapper(dstTyp) ==
    IF "Int64" \in {dstTyp.Kind, dstTyp.Elem}
    THEN [mapper |-> <<>>, err |-> InvalidDestinationType]
    ELSE [mapper |-> <<dstTyp>>, err |-> NoError]

\* allocateColumns (not in src): the binder never fails on an unbound column
\* or an unbound field
allocateColumns(m, columnsByName) ==
    [mapper |-> Append(m, columnsByName), err |-> NoError]

\* mapperCache.loadMap (not in src)
loadMap(cache, cols, dstTyp) ==
    IF <<cols, dstTyp>> \in DOMAIN cache
    THEN [mapper |-> cache[<<cols, dstTyp>>], ok |-> TRUE]
    ELSE [mapper |-> <<>>, ok |-> FALSE]

\* mapperCache.storeMap (not in src)
storeMap(cache, cols, dstTyp, m) == Put(cache, <<cols, dstTyp>>, m)

\* mapper.loadRows (not in src): the destination must be a reference to a
\* record or to a sequence of records, a mismatch fails before any row
loadRows(m, dstTyp) ==
    IF isSlicePtr(dstTyp) \/ isStructPtr(dstTyp)
    THEN [err |-> NoError, rowsTaken |-> TRUE]
    ELSE [err |-> InvalidDestinationType, rowsTaken |-> FALSE]

InitMap ==
    /\ mapperCache = <<>>
    /\ mapPc = [p \in Callers |-> "start"]
    /\ dst \in [Callers -> DstShapes]
    /\ rowsColumns \in [Callers -> RowsColumnsPool]
    /\ mapper = [p \in Callers |-> <<>>]
    /\ mapRet = [p \in Callers |-> NoError]
    /\ rowsTaken = [p \in Callers |-> FALSE]
    /\ heap = <<>> /\ Responses = <<>> /\ sqlMapVals = newSubMapVals
    /\ Error = NoError /\ Logs = {}
    /\ PresentColumns = [n \in Nodes |-> [isNil |-> TRUE, list |-> <<>>]]
    /\ pc = "idle" /\ ret = NoError /\ dstKind = "slice" /\ rowsDone = <<>>
    /\ calls = 0
    /\ prevRows = <<>> /\ prevHeap = <<>> /\ prevResponses = <<>>
    /\ PlanIdle
    /\ EnumIdle
    /\ KeyIdle

Return(p, err) ==
    /\ mapPc' = [mapPc EXCEPT ![p] = "done"]
    /\ mapRet' = [mapRet EXCEPT ![p] = err]

\* Map up to the cache lookup and, on a miss, the making of the mapper
MapStart(p) ==
    /\ mapPc[p] = "start"
    /\ \E source \in SourceOutcomes :
         IF source # "ok"
         THEN Return(p, RowSourceError) /\ UNCHANGED mapper
         ELSE LET dstTyp == dst[p]
                  l == loadMap(mapperCache, rowsColumns[p], dstTyp)
              IN  IF l.ok
                  THEN /\ mapper' = [mapper EXCEPT ![p] = l.mapper]
                       /\ mapPc' = [mapPc EXCEPT ![p] = "loadRows"]
                       /\ UNCHANGED mapRet
                  ELSE IF DestinationRejected(dstTyp)
                  THEN Return(p, InvalidDestinationType) /\ UNCHANGED mapper
                  ELSE LET n == newMapper(dstTyp)
                           a == allocateColumns(n.mapper, rowsColumns[p])
                       IN  IF n.err # NoError
                           THEN Return(p, n.err) /\ UNCHANGED mapper
                           ELSE IF a.err # NoError
                           THEN Return(p, a.err) /\ UNCHANGED mapper
                           ELSE /\ mapper' = [mapper EXCEPT ![p] = a.mapper]
                                /\ mapPc' = [mapPc EXCEPT ![p] = "store"]
                                /\ UNCHANGED mapRet
    /\ UNCHANGED <<mapperCache, dst, rowsColumns, rowsTaken, asmVars, planVars, enumVars, keyVars>>

\* mapperCache.storeMap(columns, dstTyp, mapper)
MapStore(p) ==
    /\ mapPc[p] = "store"
    /\ mapperCache' = storeMap(mapperCache, rowsColumns[p], dst[p], mapper[p])
    /\ mapPc' = [mapPc EXCEPT ![p] = "loadRows"]
    /\ UNCHANGED <<dst, rowsColumns, mapper, mapRet, rowsTaken, asmVars, planVars, enumVars, keyVars>>

\* return mapper.loadRows(rows, dst)
MapLoadRows(p) ==
    /\ mapPc[p] = "loadRows"
    /\ \E r \in {loadRows(mapper[p], dst[p])} :
          /\ Return(p, r.err)
          /\ rowsTaken' = [rowsTaken EXCEPT ![p] = r.rowsTaken]
    /\ UNCHANGED <<mapperCache, dst, rowsColumns, mapper, asmVars, planVars, enumVars, keyVars>>

NextMap == \E p \in Callers : MapStart(p) \/ MapStore(p) \/ MapLoadRows(p)

SpecMap == InitMap /\ [][NextMap]_vars

(***************************************************************************)
(* RegisterEnums and the package variable EnumVals.  A map is an object:   *)
(* EnumVals = enums makes the registry the caller's map.                   *)
(***************************************************************************)
EnumNames == {"Status", "Kind"}

\* the maps of value names to codes a caller may give for an enum type
EnumMapVals == {"codes1", "codes2"}

\* the content of the maps callers pass
EnumsGiven == UNION {[S -> EnumMapVals] : S \in SUBSET EnumNames}

RECURSIVE RegisterLoop(_, _, _, _)
\* for enumMapName, enumMapVals := range enums { EnumVals[...] = enumMapVals }
RegisterLoop(registry, enums, order, k) ==
    IF k > Len(order) THEN registry
    ELSE RegisterLoop(Put(registry, order[k], enums[order[k]]), enums, order, k + 1)

\* a RegisterEnums that makes the given map the registry every time
RegisterEnumsAssign(st, enums, order) == [st EXCEPT !.EnumVals = enums]

\* enums is 0 (a nil map) or the address of the caller's map
RegisterEnums(st, enums, order) ==
    IF st.EnumVals = 0
    THEN [st EXCEPT !.EnumVals = enums]
    ELSE IF enums = 0 THEN st
    ELSE [st EXCEPT !.enumMaps[st.EnumVals] =
                        RegisterLoop(@, st.enumMaps[enums], order, 1)]

InitEnums ==
    /\ EnumVals = 0
    /\ enumMaps = <<>>
    /\ enumCalls = <<>>
    /\ heap = <<>> /\ Responses = <<>> /\ sqlMapVals = newSubMapVals
    /\ Error = NoError /\ Logs = {}
    /\ PresentColumns = [n \in Nodes |-> [isNil |-> TRUE, list |-> <<>>]]
    /\ pc = "idle" /\ ret = NoError /\ dstKind = "slice" /\ rowsDone = <<>>
    /\ calls = 0
    /\ prevRows = <<>> /\ prevHeap = <<>> /\ prevResponses = <<>>
    /\ PlanIdle
    /\ MapIdle
    /\ KeyIdle

\* a caller makes a map and registers it
RegisterEnumsCall ==
    /\ Len(enumCalls) < MaxEnumCalls
    /\ \E given \in EnumsGiven : \E order \in Perms(DOMAIN given) :
          \E st \in {RegisterEnums([EnumVals |-> EnumVals,
                                    enumMaps |-> Append(enumMaps, given)],
                                   Len(enumMaps) + 1, order)} :
             /\ EnumVals' = st.EnumVals
             /\ enumMaps' = st.enumMaps
             /\ enumCalls' = Append(enumCalls, given)
    /\ UNCHANGED <<asmVars, planVars, mapVars, keyVars>>

\* a caller registers a nil map
RegisterEnumsNil ==
    /\ Len(enumCalls) < MaxEnumCalls
    /\ \E st \in {RegisterEnums([EnumVals |-> EnumVals, enumMaps |-> enumMaps], 0, <<>>)} :
          /\ EnumVals' = st.EnumVals
          /\ enumMaps' = st.enumMaps
    /\ enumCalls' = Append(enumCalls, <<>>)
    /\ UNCHANGED <<asmVars, planVars, mapVars, keyVars>>

NextEnums == RegisterEnumsCall \/ RegisterEnumsNil

SpecEnums == InitEnums /\ [][NextEnums]_vars

(***************************************************************************)
(* The composite keys on their own: findUniqueResp as MapRow calls it for  *)
(* the top level node and then, with the key it returned, for a nested     *)
(* node, on two row fragments.                                             *)
(***************************************************************************)
\* raw values a key column may carry: nil, the empty text, texts that hold
\* the delimiter and texts that look like the null marker
KeyValues == {Null, "", "a", ";", "a;", ";a", "N", "\\N"}

\* the nested node the keys are made for
KeyNode == "Posts"

\* the runtime state with the raw values of one node filled in, no key seen
KeyState(n, value) ==
    [vals |-> [newSubMapVals EXCEPT ![n].ProtoValues = <<value>>]]

\* MapRow's two calls of findUniqueResp for one row fragment <<parent, child>>
KeysOf(fragment) ==
    LET top == findUniqueResp(KeyState(Root, fragment[1]), Root, <<>>).uniqueId
    IN  [parent |-> top,
         child  |-> findUniqueResp(KeyState(KeyNode, fragment[2]), KeyNode, top).uniqueId]

InitKeys ==
    /\ keyIn \in [1..2 -> [1..2 -> KeyValues]]
    /\ keyOut = <<>>
    /\ heap = <<>> /\ Responses = <<>> /\ sqlMapVals = newSubMapVals
    /\ Error = NoError /\ Logs = {}
    /\ PresentColumns = [n \in Nodes |-> [isNil |-> TRUE, list |-> <<>>]]
    /\ pc = "idle" /\ ret = NoError /\ dstKind = "slice" /\ rowsDone = <<>>
    /\ calls = 0
    /\ prevRows = <<>> /\ prevHeap = <<>> /\ prevResponses = <<>>
    /\ PlanIdle
    /\ MapIdle
    /\ EnumIdle

\* the keys of both fragments are computed
FindKeys ==
    /\ keyOut = <<>>
    /\ keyOut' = [i \in 1..2 |-> KeysOf(keyIn[i])]
    /\ UNCHANGED <<keyIn, asmVars, planVars, mapVars, enumVars>>

NextKeys == FindKeys

SpecKeys == InitKeys /\ [][NextKeys]_vars

(***************************************************************************)
(* Vocabulary of the properties.                                           *)
(***************************************************************************)
ChildNodes(n) == ChildNodesOf[n]

RowsSeen == {rowsDone[i] : i \in 1..Len(rowsDone)}

\* the raw values of the row in the columns bound to node n
OwnValues(n, row) == [c \in Columns[n] |-> row[columns[c]]]

AllNull(n, row) == \A c \in Columns[n] : row[columns[c]] = Null

\* neither n nor any of its ancestors is null-skipped in the row
RECURSIVE Visible(_, _)
Visible(n, row) == ~AllNull(n, row) /\ (n = Root \/ Visible(Parent(n), row))

\* composite identity: the parent's key followed by the node's own values
RECURSIVE CompositeKey(_, _)
CompositeKey(n, row) ==
    IF n = Root THEN <<OwnValues(n, row)>>
    ELSE Append(CompositeKey(Parent(n), row), OwnValues(n, row))

KeysObserved(n) == {CompositeKey(n, row) : row \in {r \in RowsSeen : Visible(n, r)}}

Addresses == 1..Len(heap)

\* the records a parent record holds for child node n
ChildSet(p, n) ==
    IF IsCollection(n) THEN {heap[p].many[n][i] : i \in 1..Len(heap[p].many[n])}
    ELSE {heap[p].one[n]} \ {0}

\* every slot of a collection field of node n, over all parent records
AppendedAt(n) ==
    UNION {{<<p, i>> : i \in 1..Len(heap[p].many[n])} :
              p \in {q \in Addresses : heap[q].node = Parent(n)}}

TopLevel == {Responses[i] : i \in 1..Len(Responses)}

\* the top level record that carries the row's root values
RootRecords(row) == {p \in TopLevel : heap[p].leaves = OwnValues(Root, row)}

NoFailure == Error = NoError

\* a row in which MapRow reaches a leaf it cannot set: the row is not
\* skipped, and the root or the has-one child carries a rejected value
RowFails(row) ==
    /\ ~AllNull(Root, row)
    /\ \/ \E c \in Columns[Root] : setProtoFails(row[columns[c]])
       \/ \E a \in ChildNodes(Root) : \E c \in Columns[a] : setProtoFails(row[columns[c]])

\* the first leaf MapRow fails on: the root's before a child's
FirstError(row) ==
    IF \E c \in Columns[Root] : setProtoFails(row[columns[c]])
    THEN SetProtoError(Root, CHOOSE c \in Columns[Root] : setProtoFails(row[columns[c]]))
    ELSE LET a == CHOOSE x \in ChildNodes(Root) : \E c \in Columns[x] : setProtoFails(row[columns[c]])
         IN  SetProtoError(a, CHOOSE c \in Columns[a] : setProtoFails(row[columns[c]]))

(***************************************************************************)
(* C1: while no leaf coercion of the call has failed, at every has-many    *)
(* node the number of records appended to the parents' collection fields   *)
(* equals the number of distinct composite identity keys (parent's key     *)
(* followed by the node's own column values) of the rows in which neither  *)
(* the node nor one of its ancestors is all null.  Whatever happened, no   *)
(* more records than keys are ever appended.                               *)
(***************************************************************************)
C1_RecordsEqualKeys ==
    \A n \in CollectionNodes :
        IF NoFailure
        THEN Cardinality(AppendedAt(n)) = Cardinality(KeysObserved(n))
        ELSE Cardinality(AppendedAt(n)) <= Cardinality(KeysObserved(n))

\* two rows share the root, differ below: one parent with two Posts, each with its Tag
C1_Witness ==
    /\ NoFailure
    /\ Cardinality(KeysObserved("Posts")) = 2
    /\ Cardinality(KeysObserved("Tags")) = 2
    /\ Len(Responses) = 1
    /\ Cardinality(AppendedAt("Posts")) = 2

(***************************************************************************)
(* C2: child records are never shared across parents.  No record is held   *)
(* by two parent slots; and while no coercion has failed, two rows with    *)
(* different root values and the same (non-null) values in the columns of  *)
(* a child node of the root give two root records, each holding a child    *)
(* record of its own (for a has-many child: one carrying those values).    *)
(***************************************************************************)
Holders(c) == UNION {{<<p, n>> : n \in {x \in ChildNodes(heap[p].node) : c \in ChildSet(p, x)}} :
                        p \in Addresses}

C2_ChildPerParent ==
    /\ \A c \in Addresses : Cardinality(Holders(c)) <= 1
    /\ \A p \in Addresses : \A n \in ChildNodes(heap[p].node) :
          IsCollection(n) => Cardinality(ChildSet(p, n)) = Len(heap[p].many[n])
    /\ NoFailure =>
         \A r1 \in RowsSeen, r2 \in RowsSeen : \A n \in ChildNodes(Root) :
            ( /\ ~AllNull(Root, r1) /\ ~AllNull(Root, r2)
              /\ OwnValues(Root, r1) # OwnValues(Root, r2)
              /\ ~AllNull(n, r1)
              /\ OwnValues(n, r1) = OwnValues(n, r2) )
            => \E p1 \in RootRecords(r1), p2 \in RootRecords(r2) :
                  /\ p1 # p2
                  /\ ChildSet(p1, n) # {} /\ ChildSet(p2, n) # {}
                  /\ ChildSet(p1, n) \cap ChildSet(p2, n) = {}
                  /\ IsCollection(n) =>
                        \E c1 \in ChildSet(p1, n), c2 \in ChildSet(p2, n) :
                            /\ heap[c1].leaves = OwnValues(n, r1)
                            /\ heap[c2].leaves = OwnValues(n, r2)

\* two roots, the same post and the same city under both
C2_Witness ==
    /\ NoFailure
    /\ Len(Responses) = 2
    /\ \A i \in 1..2 :
          /\ Len(heap[Responses[i]].many["Posts"]) = 1
          /\ heap[Responses[i]].one["Addr"] # 0
    /\ heap[heap[Responses[1]].many["Posts"][1]].leaves
          = heap[heap[Responses[2]].many["Posts"][1]].leaves
    /\ heap[heap[Responses[1]].one["Addr"]].leaves = heap[heap[Responses[2]].one["Addr"]].leaves

(***************************************************************************)
(* C3: the leaves of a record are written once, when the record is made    *)
(* for the first row that carries its key, and never again.  No leaf is    *)
(* ever written twice; while no coercion has failed every leaf of every    *)
(* record has been written exactly once and every (node, key) of the seen  *)
(* maps refers to a record of that node carrying the key's own values; a   *)
(* later row leaves the leaves of all existing records as they are and     *)
(* only changes has-one fields or extends has-many lists.                  *)
(***************************************************************************)
IsPrefix(a, b) == Len(a) <= Len(b) /\ \A i \in 1..Len(a) : a[i] = b[i]

LeavesWrittenOnce ==
    /\ \A a \in Addresses : \A c \in Columns[heap[a].node] :
          /\ heap[a].writes[c] <= 1
          /\ NoFailure => heap[a].writes[c] = 1 /\ heap[a].leaves[c] # Unset
    /\ NoFailure =>
          \A n \in Nodes : \A k \in DOMAIN sqlMapVals[n].UniqueIds :
             LET a == sqlMapVals[n].UniqueIds[k]
             IN  /\ a \in Addresses
                 /\ heap[a].node = n
                 /\ \E row \in RowsSeen : heap[a].leaves = OwnValues(n, row)

OnlyDescendantsChange ==
    \A a \in Addresses :
        /\ a <= Len(heap')
        /\ heap'[a].node = heap[a].node
        /\ heap'[a].leaves = heap[a].leaves
        /\ heap'[a].writes = heap[a].writes
        /\ \A n \in DOMAIN heap[a].many : IsPrefix(heap[a].many[n], heap'[a].many[n])

C3_LeavesWrittenOnce == [](LeavesWrittenOnce) /\ [][OnlyDescendantsChange]_vars

\* a second row carried the key of an existing root and added a post to it
C3_Witness ==
    /\ NoFailure
    /\ Len(rowsDone) = 2
    /\ ~AllNull(Root, rowsDone[1])
    /\ OwnValues(Root, rowsDone[1]) = OwnValues(Root, rowsDone[2])
    /\ Len(Responses) = 1
    /\ Len(heap[Responses[1]].many["Posts"]) = 2

(***************************************************************************)
(* C4: a row whose root columns are all null changes neither the records   *)
(* of the destination tree nor any seen map, whatever its other columns    *)
(* hold.                                                                   *)
(***************************************************************************)
SeenMaps == [n \in Nodes |-> sqlMapVals[n].UniqueIds]

C4_NullRowAbsorbed ==
    [][ (Len(rowsDone') = Len(rowsDone) + 1 /\ AllNull(Root, rowsDone'[Len(rowsDone')]))
          => /\ heap' = heap
             /\ Responses' = Responses
             /\ SeenMaps' = SeenMaps
             /\ Error' = Error /\ Logs' = Logs /\ pc' = pc ]_vars

\* a null-root row with non-null child columns was taken after a real one
C4_Witness ==
    /\ Len(rowsDone) = 2
    /\ Len(heap) > 0
    /\ AllNull(Root, rowsDone[2])
    /\ ~AllNull("Posts", rowsDone[2]) /\ ~AllNull("Addr", rowsDone[2])

(***************************************************************************)
(* C5 (as claimed): when a row carries an unseen key for a has-one child   *)
(* of a parent record whose field is already set, a log entry is recorded  *)
(* and the parent's field still refers to the child it had.                *)
(***************************************************************************)
\* the unique id MapRow computes for node n in the row
RECURSIVE UniqueIdOf(_, _)
UniqueIdOf(n, row) ==
    LET own == [i \in 1..Len(PresentColumns[n].list) |->
                    row[columns[PresentColumns[n].list[i]]]]
    IN  IF n = Root THEN getUniqueId(own) ELSE UniqueIdOf(Parent(n), row) \o getUniqueId(own)

LastRow(rows) == rows[Len(rows)]

\* in the state before the row: the parent is known, its has-one field a is
\* set, the row's key for a is unseen, and every value of the row can be set
HasOneMiss(a, row) ==
    /\ pc = "running" /\ NoFailure
    /\ ~AllNull(Root, row) /\ ~AllNull(a, row)
    /\ ~RowFails(row)
    /\ RootRecords(row) # {}
    /\ \A p \in RootRecords(row) : heap[p].one[a] # 0
    /\ UniqueIdOf(a, row) \notin DOMAIN sqlMapVals[a].UniqueIds

RowTaken == Len(rowsDone') = Len(rowsDone) + 1

C5_HasOneNotOverwritten ==
    [][ \A a \in ChildNodes(Root) :
          (IsAssociation(a) /\ RowTaken /\ HasOneMiss(a, LastRow(rowsDone')))
            => /\ HasOneMessage(a) \in Logs'
               /\ \A p \in RootRecords(LastRow(rowsDone')) : heap'[p].one[a] = heap[p].one[a] ]_vars

(***************************************************************************)
(* C5 (amended): in that case a log entry is recorded and the field is     *)
(* overwritten: after the row the parent's field refers to the record      *)
(* allocated for the new key, and the child it had is detached from the    *)
(* parent but is still the record of its key in the seen map.              *)
(***************************************************************************)
C5_HasOneLoggedAndReplaced ==
    [][ \A a \in ChildNodes(Root) :
          (IsAssociation(a) /\ RowTaken /\ HasOneMiss(a, LastRow(rowsDone')))
            => /\ HasOneMessage(a) \in Logs'
               /\ \A p \in RootRecords(LastRow(rowsDone')) :
                     /\ heap'[p].one[a] \notin Addresses
                     /\ heap'[p].one[a] \in 1..Len(heap')
                     /\ heap'[heap'[p].one[a]].node = a
                     /\ sqlMapVals'[a].UniqueIds[UniqueIdOf(a, LastRow(rowsDone'))] = heap'[p].one[a]
                     /\ heap'[heap[p].one[a]] = heap[heap[p].one[a]]
                     /\ \E k \in DOMAIN sqlMapVals'[a].UniqueIds :
                           sqlMapVals'[a].UniqueIds[k] = heap[p].one[a] ]_vars

\* a root whose has-one child was replaced: the log entry, and an Addr record
\* that no parent refers to any more
C5_Witness ==
    /\ HasOneMessage("Addr") \in Logs
    /\ NoFailure
    /\ \E c \in Addresses : heap[c].node = "Addr" /\ Holders(c) = {}

(***************************************************************************)
(* C6 (as claimed): with a single record as destination at most one top    *)
(* level record is ever made, and a second root identity key ends the      *)
(* call with AmbiguousSingletonRoot.                                       *)
(***************************************************************************)
AmbiguousSingletonRoot == <<"AmbiguousSingletonRoot">>

RootKeysSeen == {OwnValues(Root, r) : r \in {x \in RowsSeen : ~AllNull(Root, x)}}

SetProtoErrors == {SetProtoError(n, c) : n \in Nodes, c \in ColumnNames}

FailureReturned ==
    /\ (\E i \in 1..Len(rowsDone) : RowFails(rowsDone[i])) <=> ~NoFailure
    /\ \A i \in 1..Len(rowsDone) :
          RowFails(rowsDone[i]) =>
             /\ i = Len(rowsDone)
             /\ pc = "returned"
             /\ ret = FirstError(rowsDone[i])
             /\ Error = ret

NothingAfterFailure ==
    ~NoFailure => UNCHANGED <<heap, Responses, sqlMapVals, rowsDone, Error, ret, pc>>

C8_FailureShortCircuits == [](FailureReturned) /\ [][NothingAfterFailure]_vars

\* the first of the rows failed in the has-one child: the call returned the
\* error with a row still to come
C8_Witness ==
    /\ pc = "returned"
    /\ Len(rowsDone) = 1
    /\ Len(rowsDone) < MaxRows
    /\ ret = SetProtoError("Addr", "city")
    /\ Len(heap) >= 2

(***************************************************************************)
(* C9: in every plan the builder produces, for every destination type and  *)
(* every column vector, no two ColumnField entries of the PresentColumns   *)
(* of the SqlMaps of the run, in one SqlMap or in two, carry the same      *)
(* columnIndex: a column index is bound to at most one leaf field.         *)
(***************************************************************************)
Bindings ==
    {<<o, c>> : o \in 1..Len(bObjs), c \in ColumnPool \cup {""}} \cap
    UNION {{<<o, c>> : c \in DOMAIN bObjs[o].PresentColumns.map} : o \in 1..Len(bObjs)}

ColumnIndexOf(b) == bObjs[b[1]].PresentColumns.map[b[2]].columnIndex

ValidDestination(dstTyp) == isStructPtr(dstTyp) \/ isSlicePtr(dstTyp)

C7_DestinationValidated ==
    \A p \in Callers :
        (mapPc[p] = "done" /\ mapRet[p] # RowSourceError) =>
            /\ (mapRet[p] = InvalidDestinationType) <=> ~ValidDestination(dst[p])
            /\ (mapRet[p] = InvalidDestinationType) => ~rowsTaken[p]

(***************************************************************************)
(* C10: no step of an assemble call writes a field of the plan: the        *)
(* PresentColumns of every SqlMap are after the step what they were        *)
(* before it.                                                              *)
(***************************************************************************)
C10_PlanNeverWritten == [][PresentColumns' = PresentColumns]_vars

(***************************************************************************)
(* C11: a MapResponse call sees nothing of the calls made before it on the *)
(* same Mapper: a call that has returned and none of whose rows carries a  *)
(* value that cannot be coerced has returned no error, has made one top    *)
(* level record per root key of its rows, and has set every leaf of every  *)
(* record it made.                                                         *)
(***************************************************************************)
C11_CallsIsolated ==
    (pc = "returned" /\ \A i \in 1..Len(rowsDone) : ~RowFails(rowsDone[i])) =>
        /\ ret = NoError
        /\ Len(Responses) = Cardinality(RootKeysSeen)
        /\ \A a \in Addresses : \A c \in Columns[heap[a].node] : heap[a].writes[c] = 1

(***************************************************************************)
(* C12: within one call, the records of every has-many list and of the     *)
(* top level sequence stand in the order in which the rows first carried   *)
(* their composite identity keys, and a later row only appends: every list *)
(* of the state before a step is a prefix of the list after it.            *)
(***************************************************************************)
\* the rows (by position) that carry the key under which record a is seen
KeyRows(a) ==
    LET n == heap[a].node
    IN  {i \in 1..Len(rowsDone) :
            /\ Visible(n, rowsDone[i])
            /\ UniqueIdOf(n, rowsDone[i]) \in DOMAIN sqlMapVals[n].UniqueIds
            /\ sqlMapVals[n].UniqueIds[UniqueIdOf(n, rowsDone[i])] = a}

FirstSeen(a) == CHOOSE i \in KeyRows(a) : \A j \in KeyRows(a) : i <= j

\* the top level sequence and every has-many list of every record
Lists == {Responses} \cup
         UNION {{heap[p].many[n] : n \in DOMAIN heap[p].many} : p \in Addresses}

InFirstSeenOrder ==
    \A L \in Lists :
        /\ NoFailure => \A i \in 1..Len(L) : KeyRows(L[i]) # {}
        /\ \A i, j \in 1..Len(L) :
              (i < j /\ KeyRows(L[i]) # {} /\ KeyRows(L[j]) # {})
                 => FirstSeen(L[i]) < FirstSeen(L[j])

OnlyAppended ==
    /\ IsPrefix(Responses, Responses')
    /\ \A p \in Addresses :
          /\ p <= Len(heap')
          /\ \A n \in DOMAIN heap[p].many : IsPrefix(heap[p].many[n], heap'[p].many[n])

C12_FirstSeenOrder == [](InFirstSeenOrder) /\ [][OnlyAppended]_vars

\* one root whose posts came as v2, then v1, and stand in that order
C12_Witness ==
    /\ NoFailure
    /\ Len(rowsDone) = 2
    /\ rowsDone[1][columns["post_id"]] = "v2"
    /\ rowsDone[2][columns["post_id"]] = "v1"
    /\ Len(Responses) = 1
    /\ Len(heap[Responses[1]].many["Posts"]) = 2
    /\ heap[heap[Responses[1]].many["Posts"][1]].leaves["post_id"] = "v2"
    /\ heap[heap[Responses[1]].many["Posts"][2]].leaves["post_id"] = "v1"

(***************************************************************************)
(* C13: after any sequence of RegisterEnums calls the registry holds       *)
(* exactly the enum type names given in some call, each with the value of  *)
(* the latest call that gave it; a call leaves the entries of the names it *)
(* was not given as they were.                                             *)
(***************************************************************************)
Registry == IF EnumVals = 0 THEN <<>> ELSE enumMaps[EnumVals]

CallsGiving(name) == {i \in 1..Len(enumCalls) : name \in DOMAIN enumCalls[i]}

LatestGiving(name) == CHOOSE i \in CallsGiving(name) : \A j \in CallsGiving(name) : j <= i

RegistryIsUnion ==
    \A name \in EnumNames :
        IF CallsGiving(name) = {}
        THEN name \notin DOMAIN Registry
        ELSE /\ name \in DOMAIN Registry
             /\ Registry[name] = enumCalls[LatestGiving(name)][name]

OthersUnchanged ==
    Len(enumCalls') = Len(enumCalls) + 1 =>
        \A name \in EnumNames \ DOMAIN enumCalls'[Len(enumCalls')] :
            /\ (name \in DOMAIN Registry) <=> (name \in DOMAIN Registry')
            /\ name \in DOMAIN Registry => Registry'[name] = Registry[name]

C13_RegistryUnionLatest == [](RegistryIsUnion) /\ [][OthersUnchanged]_vars

\* Status was given twice with different values, Kind only by the first
\* call: the registry holds the later Status and still holds Kind
C13_Witness ==
    /\ Len(enumCalls) >= 2
    /\ DOMAIN enumCalls[1] = EnumNames
    /\ DOMAIN enumCalls[2] = {"Status"}
    /\ enumCalls[1]["Status"] # enumCalls[2]["Status"]
    /\ Registry["Status"] = enumCalls[2]["Status"]
    /\ Registry["Kind"] = enumCalls[1]["Kind"]

(***************************************************************************)
(* C14: a call that has taken the same rows as the call made before it on  *)
(* the same Mapper, into a fresh destination, has built an equal tree: the *)
(* same top level records in the same order, with equal leaves, equal      *)
(* has-one children and equal has-many lists, all the way down.            *)
(***************************************************************************)
RECURSIVE TreeOf(_, _)
\* the tree below record a of heap h, addresses left out
TreeOf(h, a) ==
    [node   |-> h[a].node,
     leaves |-> h[a].leaves,
     one    |-> [n \in DOMAIN h[a].one |->
                    IF h[a].one[n] = 0 THEN <<>> ELSE <<TreeOf(h, h[a].one[n])>>],
     many   |-> [n \in DOMAIN h[a].many |->
                    [i \in 1..Len(h[a].many[n]) |-> TreeOf(h, h[a].many[n][i])]]]

Destination(h, responses) == [i \in 1..Len(responses) |-> TreeOf(h, responses[i])]

C14_SameRowsSameTree ==
    (calls >= 2 /\ pc = "returned" /\ rowsDone = prevRows) =>
        Destination(heap, Responses) = Destination(prevHeap, prevResponses)

(***************************************************************************)
(* C15: when a row is taken in which every column of a child node n is     *)
(* null, no record of n or of a node below n is allocated, no parent's     *)
(* field for n changes, the seen maps of n and of the nodes below n stay   *)
(* as they are and the nodes below n are not visited at all.  If the root  *)
(* is not null and the row can be coerced, the root record of the row is   *)
(* there all the same, and so is the record of every other child of the    *)
(* root whose columns are not all null: the seen map holds it under the    *)
(* row's key, and for a has-many child it stands in the root's list.       *)
(***************************************************************************)
RECURSIVE Below(_)
\* the nodes nested in n, at any depth
Below(n) == ChildNodes(n) \cup UNION {Below(c) : c \in ChildNodes(n)}

RecordsOf(h, S) == {a \in 1..Len(h) : h[a].node \in S}

ChildField(h, p, n) == IF IsCollection(n) THEN h[p].many[n] ELSE h[p].one[n]

ChildSkipped(n, row) ==
    /\ RecordsOf(heap', {n} \cup Below(n)) = RecordsOf(heap, {n} \cup Below(n))
    /\ \A p \in RecordsOf(heap, {Parent(n)}) : ChildField(heap', p, n) = ChildField(heap, p, n)
    /\ \A p \in RecordsOf(heap', {Parent(n)}) \ Addresses :
          ChildField(heap', p, n) = ChildField(<<NewRecord(Parent(n))>>, 1, n)
    /\ \A d \in {n} \cup Below(n) : sqlMapVals'[d].UniqueIds = sqlMapVals[d].UniqueIds
    /\ \A d \in Below(n) : sqlMapVals'[d] = sqlMapVals[d] /\ PresentColumns'[d] = PresentColumns[d]

OthersMaterialized(n, row) ==
    (Parent(n) = Root /\ ~AllNull(Root, row) /\ ~RowFails(row)) =>
        \E p \in TopLevel' :
            /\ heap'[p].leaves = OwnValues(Root, row)
            /\ \A m \in ChildNodes(Root) \ {n} :
                  ~AllNull(m, row) =>
                      /\ UniqueIdOf(m, row)' \in DOMAIN sqlMapVals'[m].UniqueIds
                      /\ \E c \in {sqlMapVals'[m].UniqueIds[UniqueIdOf(m, row)']} :
                            /\ heap'[c].node = m
                            /\ heap'[c].leaves = OwnValues(m, row)
                            /\ IsCollection(m) => c \in ChildSet(p, m)'

C15_NullChildSkipped ==
    [][ \A row \in Rows : \A n \in Nodes \ {Root} :
          (RowTaken /\ row = LastRow(rowsDone') /\ AllNull(n, row))
             => ChildSkipped(n, row) /\ OthersMaterialized(n, row) ]_vars

\* a single row with a root and an address and no post: one root record
\* with its address and an empty list of posts
C15_Witness ==
    /\ Len(rowsDone) = 1
    /\ ~AllNull(Root, rowsDone[1]) /\ AllNull("Posts", rowsDone[1])
    /\ ~AllNull("Addr", rowsDone[1])
    /\ NoFailure
    /\ Len(Responses) = 1
    /\ heap[Responses[1]].many["Posts"] = <<>>
    /\ heap[Responses[1]].one["Addr"] # 0
    /\ RecordsOf(heap, {"Posts", "Tags"}) = {}

(***************************************************************************)
(* C16: in a built plan, a column bound to a leaf of a node is one that no *)
(* leaf of an ancestor node and no earlier-declared leaf of the same node  *)
(* could have taken: every such leaf whose candidate names hold the        *)
(* column's name is itself bound, to a column of lower index.  So for a    *)
(* name that a parent's leaf and a descendant's leaf both match, the       *)
(* parent's leaf gets the column, wherever the nested field is declared.   *)
(***************************************************************************)
SubMapsOf(o) == {bObjs[o].subMaps[i] : i \in DOMAIN bObjs[o].subMaps}

RECURSIVE AncestorsOf(_)
AncestorsOf(d) ==
    LET P == {o \in 1..Len(bObjs) : d \in SubMapsOf(o)}
    IN  P \cup UNION {AncestorsOf(o) : o \in P}

\* the leaf fields (by index) of SqlMap o that have name among their candidates
LeavesMatching(o, name) ==
    {i \in 1..Len(StructFields[bObjs[o].MapType]) :
        LET field == StructFields[bObjs[o].MapType][i]
        IN  isAlowedType(field) /\ name \in possibleFieldNames(field, "")}

\* leaf i of SqlMap o is bound to a column that stands before column j
BoundBefore(o, i, j) ==
    \E c \in DOMAIN bObjs[o].PresentColumns.map :
        /\ bObjs[o].PresentColumns.map[c].fieldIndex = i
        /\ bObjs[o].PresentColumns.map[c].columnIndex < j

C16_ParentBeatsChild ==
    bpc = "built" =>
        \A b \in Bindings :
            LET d == b[1]
                j == ColumnIndexOf(b)
                i == bObjs[d].PresentColumns.map[b[2]].fieldIndex
            IN  /\ \A a \in AncestorsOf(d) : \A k \in LeavesMatching(a, bGiven[j]) :
                      BoundBefore(a, k, j)
                /\ \A k \in LeavesMatching(d, bGiven[j]) : k < i => BoundBefore(d, k, j)

(***************************************************************************)
(* C17: in a built plan a node without bound column has no node below it   *)
(* that holds a bound column, and every column the build has consumed      *)
(* (blanked in the caller's vector) is bound by a node that has a bound    *)
(* column at every level above it.                                         *)
(***************************************************************************)
IsEmptyNode(o) == DOMAIN bObjs[o].PresentColumns.map = {}

Consumed == {j \in 1..Len(bGiven) : bColumns[j] # bGiven[j]}

C17_EmptyNodesPruned ==
    bpc = "built" =>
        /\ \A d \in 1..Len(bObjs) :
              (\E a \in AncestorsOf(d) : IsEmptyNode(a)) => IsEmptyNode(d)
        /\ \A j \in Consumed :
              \E b \in Bindings :
                  /\ ColumnIndexOf(b) = j
                  /\ \A a \in AncestorsOf(b[1]) : ~IsEmptyNode(a)

----------------------------------------------------------------------------
----------------------------------------------------------------------------
RECURSIVE PlanOf(_, _)
\* the structure of the plan under node o: the bindings of column names to
\* fields and column indexes, and the plans of the nested nodes by field
PlanOf(objs, o) ==
    [bindings |-> objs[o].PresentColumns.map,
     subMaps  |-> [i \in DOMAIN objs[o].subMaps |-> PlanOf(objs, objs[o].subMaps[i])]]

\* C19: a second run of the plan builder for the same destination type, given
\* the column vector as the caller holds it after the first run, yields a plan
\* structurally equal to the first: the same bindings at every node.
C19_BuildIdempotent ==
    bpc = "rebuilt" => PlanOf(bObjs2, 1) = PlanOf(bObjs, 1)

----------------------------------------------------------------------------
\* the key a call of Map looks up and stores under
CacheKey(p) == <<rowsColumns[p], dst[p]>>

\* newMapper and allocateColumns both succeed for the call's key
BuildSucceeds(p) ==
    LET n == newMapper(dst[p])
    IN  /\ n.err = NoError
        /\ allocateColumns(n.mapper, rowsColumns[p]).err = NoError

\* the call got its columns from the row source and has returned
LookedUpAndDone(p) == mapPc[p] = "done" /\ mapRet[p] # RowSourceError

\* a step that changes the cache stores one plan, under the key of a call for
\* which newMapper and allocateColumns have succeeded
StoredAfterSuccess ==
    mapperCache' # mapperCache =>
        \E p \in Callers :
            /\ BuildSucceeds(p)
            /\ DOMAIN mapperCache' = DOMAIN mapperCache \cup {CacheKey(p)}
            /\ \A k \in DOMAIN mapperCache \ {CacheKey(p)} : mapperCache'[k] = mapperCache[k]

\* a call whose newMapper fails has returned that error and read no row, and
\* no plan is cached under its key
FailureLeavesCache ==
    \A p \in Callers :
        (LookedUpAndDone(p) /\ newMapper(dst[p]).err # NoError) =>
            /\ mapRet[p] = newMapper(dst[p]).err
            /\ ~rowsTaken[p]
            /\ CacheKey(p) \notin DOMAIN mapperCache

\* two calls for one key, whose build succeeds, have both returned: a plan is
\* cached under the key
RaceLeavesOnePlan ==
    \A p, q \in Callers :
        (p # q /\ CacheKey(p) = CacheKey(q) /\ BuildSucceeds(p)
            /\ LookedUpAndDone(p) /\ LookedUpAndDone(q)) =>
                CacheKey(p) \in DOMAIN mapperCache

\* C20: Map stores a plan under (column names, destination type) only after
\* newMapper and allocateColumns have succeeded; when one of them fails Map
\* returns its error, the cache is as it was and no row is read; two calls
\* that race on a miss for one key both return and the cache then holds one
\* plan for that key.
C20_StoreDiscipline ==
    /\ [](FailureLeavesCache /\ RaceLeavesOnePlan)
    /\ [][StoredAfterSuccess]_vars

====
